---- MODULE Spec2Model ----
(***************************************************************************)
(* Model of lib/tlcl/tlcl_hmac.c: TSS_CheckHMAC (verification of the HMACs *)
(* a TPM attaches to an AUTH1/AUTH2 response) and TSS_AuthHMAC (the HMAC   *)
(* a caller attaches to an authorized command).                            *)
(*                                                                         *)
(* Buffers are sequences of bytes; offset o of the C code is element o+1.  *)
(* A byte is a 4-tuple <<kind, n, key, data>>:                             *)
(*   <<0, v, <<>>, <<>>>>  the plain byte with value v                     *)
(*   <<1, i, <<>>, d>>     byte i of the SHA-1 digest of the bytes d       *)
(*   <<2, i, k, d>>        byte i of the HMAC-SHA-1 of d under the key k   *)
(* so that two digests are equal exactly when their inputs are equal       *)
(* (SHA-1 and HMAC are collision-free black boxes).                        *)
(* A NULL pointer is the empty sequence.                                   *)
(***************************************************************************)
EXTENDS Integers, Sequences, FiniteSets, TLC

\* ---- protocol constants (tlcl_internal.h) -------------------------------
TPM_U16_SIZE == 2
TPM_U32_SIZE == 4
TPM_NONCE_SIZE == 20
TPM_HASH_SIZE == 20
TPM_TAG_RSP_COMMAND == 196
TPM_TAG_RSP_AUTH1_COMMAND == 197
TPM_TAG_RSP_AUTH2_COMMAND == 198

TPM_SUCCESS == "TPM_SUCCESS"
TPM_E_NULL_ARG == "TPM_E_NULL_ARG"
TPM_E_HMAC_FAIL == "TPM_E_HMAC_FAIL"
\* outcome of a call that dereferenced an invalid pointer and was killed
CRASH == "CRASH"
\* the value of `result' while the call has not returned
NONE == "NONE"

NULL == <<>>

\* ---- bounds of the model ------------------------------------------------
\* length of the buffer that holds a response
BufLen == 100
\* number of distinct values a tampering adversary may write into a byte
NumTamperValues == 2
\* number of selection lists tried per call
NumArgLists == 5

\* ---- bytes and buffers --------------------------------------------------
B(v) == <<0, v, <<>>, <<>>>>

Bytes(s) == [i \in 1..Len(s) |-> B(s[i])]

Fill(n, v) == [i \in 1..n |-> B(v)]

Val(b) == b[2]

At(buf, off) == buf[off + 1]

Slice(buf, off, n) == SubSeq(buf, off + 1, off + n)

\* the n bytes at offset off lie inside the buffer
InBuf(buf, off, n) == off >= 0 /\ off + n <= Len(buf)

FromTpmUint16(buf, off) == Val(At(buf, off)) * 256 + Val(At(buf, off + 1))

FromTpmUint32(buf, off) ==
    Val(At(buf, off)) * 16777216 + Val(At(buf, off + 1)) * 65536
  + Val(At(buf, off + 2)) * 256 + Val(At(buf, off + 3))

ToTpmUint32(x) ==
    << B((x \div 16777216) % 256), B((x \div 65536) % 256),
       B((x \div 256) % 256), B(x % 256) >>

\* ---- SHA-1 / HMAC-SHA-1 primitives (sha1.h) -----------------------------
sha1_starts == <<>>

sha1_update(ctx, buf) == ctx \o buf

sha1_finish(ctx) == [i \in 1..TPM_HASH_SIZE |-> <<1, i, <<>>, ctx>>]

hmac_starts(k, keySize) == [key |-> SubSeq(k, 1, keySize), data |-> <<>>]

hmac_update(ctx, buf) == [ctx EXCEPT !.data = @ \o buf]

hmac_finish(ctx) == [i \in 1..TPM_HASH_SIZE |-> <<2, i, ctx.key, ctx.data>>]

\* ---- TSS_CheckHMAC: pure parts -----------------------------------------
\* The variadic selection list is a sequence of <<arg_size, arg_pos>> pairs;
\* the loop stops at the first pair whose arg_size is 0.
RECURSIVE HashArgs(_, _, _)
HashArgs(ctx, resp, a) ==
    IF a = <<>> \/ Head(a)[1] = 0 THEN ctx
    ELSE HashArgs(sha1_update(ctx, Slice(resp, Head(a)[2], Head(a)[1])),
                  resp, Tail(a))

\* every range the loop reads lies inside the response buffer
RECURSIVE ArgsInBuf(_, _)
ArgsInBuf(resp, a) ==
    IF a = <<>> \/ Head(a)[1] = 0 THEN TRUE
    ELSE InBuf(resp, Head(a)[2], Head(a)[1]) /\ ArgsInBuf(resp, Tail(a))

\* the <<"arg", 0, first, last>> entries the loop adds to the read log
RECURSIVE ArgReads(_)
ArgReads(a) ==
    IF a = <<>> \/ Head(a)[1] = 0 THEN {}
    ELSE {<<"arg", 0, Head(a)[2], Head(a)[2] + Head(a)[1] - 1>>}
         \cup ArgReads(Tail(a))

\* (variant: the request tag TPM_TAG_RQU_COMMAND compared instead)
IsNoAuth_RequestTag(t) == t = 193

\* line 49
IsNoAuth(t) == t = TPM_TAG_RSP_COMMAND

\* line 52
MissingArg(resp, nOdd, k) == resp = NULL \/ nOdd = NULL \/ k = NULL

\* (variant: only the lower end of the tag range is checked)
UnsupportedTag_LowerOnly(t) == t < TPM_TAG_RSP_AUTH1_COMMAND

\* line 56
UnsupportedTag(t) ==
    t # TPM_TAG_RSP_AUTH1_COMMAND /\ t # TPM_TAG_RSP_AUTH2_COMMAND

\* (variant: the second key demanded for the wrong tag)
MissingKey2_Auth1(t, k2) == t = TPM_TAG_RSP_AUTH1_COMMAND /\ k2 = NULL

\* line 60
MissingKey2(t, k2) == t = TPM_TAG_RSP_AUTH2_COMMAND /\ k2 = NULL

CheckParamDigest(resp, ord, a) ==
    sha1_finish(
      HashArgs(
        sha1_update(
          sha1_update(sha1_starts,
                      Slice(resp, TPM_U16_SIZE + TPM_U32_SIZE, TPM_U32_SIZE)),
          ord),
        resp, a))

TrailerOffset(t) ==
    IF t = TPM_TAG_RSP_AUTH2_COMMAND
      THEN (TPM_NONCE_SIZE + 1 + TPM_HASH_SIZE) * 2
      ELSE TPM_NONCE_SIZE + 1 + TPM_HASH_SIZE

\* (variant: the offset is not halved for the second block)
HalvedOffset_Same(off) == off

HalvedOffset(off) == off \div 2

\* (variant: the nonces in the order TSS_AuthHMAC uses, odd before even)
AuthBlockHmac_OddFirst(k, pd, resp, base, nOdd) ==
    hmac_finish(
      hmac_update(
        hmac_update(
          hmac_update(
            hmac_update(hmac_starts(k, Len(k)), pd),
            nOdd),
          Slice(resp, base, TPM_NONCE_SIZE)),
        Slice(resp, base + TPM_NONCE_SIZE, 1)))

\* the HMAC the verifier expects for the block that starts at offset base
AuthBlockHmac(k, pd, resp, base, nOdd) ==
    hmac_finish(
      hmac_update(
        hmac_update(
          hmac_update(
            hmac_update(hmac_starts(k, Len(k)), pd),
            Slice(resp, base, TPM_NONCE_SIZE)),
          nOdd),
        Slice(resp, base + TPM_NONCE_SIZE, 1)))

\* (variant: the comparison is one byte short)
AuthBlockMatches_Short(mac, resp, base) ==
    SubSeq(mac, 1, TPM_HASH_SIZE - 1)
      = Slice(resp, base + TPM_NONCE_SIZE + 1, TPM_HASH_SIZE - 1)

\* memcmp(authHmac, response + size - offset + TPM_NONCE_SIZE + 1, ...) == 0
AuthBlockMatches(mac, resp, base) ==
    mac = Slice(resp, base + TPM_NONCE_SIZE + 1, TPM_HASH_SIZE)

Block1FailCode == TPM_E_HMAC_FAIL

\* (variant: the return after the second comparison is missing)
Block2FailCode_Fallthrough == TPM_SUCCESS

Block2FailCode == TPM_E_HMAC_FAIL

BlockLen == TPM_NONCE_SIZE + 1 + TPM_HASH_SIZE

BlockReads(n, base) ==
    { <<"nonce", n, base, base + TPM_NONCE_SIZE - 1>>,
      <<"flag", n, base + TPM_NONCE_SIZE, base + TPM_NONCE_SIZE>>,
      <<"hmac", n, base + TPM_NONCE_SIZE + 1, base + BlockLen - 1>> }

\* ---- TSS_AuthHMAC: pure parts ------------------------------------------
\* The variadic list is a sequence of <<arg_size, arg_data>> pairs, arg_data
\* a buffer or NULL; the loop stops at the first pair whose arg_size is 0.
RECURSIVE AuthHashArgs(_, _)
AuthHashArgs(ctx, a) ==
    IF a = <<>> \/ Head(a)[1] = 0 THEN ctx
    ELSE AuthHashArgs(sha1_update(ctx, SubSeq(Head(a)[2], 1, Head(a)[1])),
                      Tail(a))

\* the loop meets a NULL arg_data before it meets the terminating 0
RECURSIVE AuthNullArg(_)
AuthNullArg(a) ==
    IF a = <<>> \/ Head(a)[1] = 0 THEN FALSE
    ELSE Head(a)[2] = NULL \/ AuthNullArg(Tail(a))

AuthParamDigest(a) == sha1_finish(AuthHashArgs(sha1_starts, a))

\* (variant: the second nonce hashed before the first)
AuthHmacValue_Swapped(k, pd, n1, n2, flag) ==
    hmac_finish(
      hmac_update(
        hmac_update(
          hmac_update(
            hmac_update(hmac_starts(k, Len(k)), pd),
            n2),
          n1),
        <<B(flag)>>))

AuthHmacValue(k, pd, n1, n2, flag) ==
    hmac_finish(
      hmac_update(
        hmac_update(
          hmac_update(
            hmac_update(hmac_starts(k, Len(k)), pd),
            n1),
          n2),
        <<B(flag)>>))

\* ---- inputs: the responses a TPM (or an adversary) hands to the caller --
\* session secrets and nonces of the TPM side
K1 == Bytes(<<11, 12>>)
K2 == Bytes(<<21, 22, 23>>)
NOdd == Fill(TPM_NONCE_SIZE, 1)
NOddStale == Fill(TPM_NONCE_SIZE, 2)
NEven1 == Fill(TPM_NONCE_SIZE, 3)
NEven2 == Fill(TPM_NONCE_SIZE, 4)
BigEndian32(x) ==
    [i \in 1..4 |-> B((x \div (256 ^ (4 - i))) % 256)]

\* a response of L bytes with tag t and declared size S, no trailer yet
Plain(t, S, L) ==
    [i \in 1..L |->
       IF i = 1 THEN B(0)
       ELSE IF i = 2 THEN B(t)
       ELSE IF i <= 6 THEN BigEndian32(S)[i - 2]
       ELSE IF i <= 10 THEN B(0)
       ELSE B(100 + (i % 50))]

RECURSIVE Selected(_, _)
Selected(resp, a) ==
    IF a = <<>> \/ Head(a)[1] = 0 THEN <<>>
    ELSE SubSeq(resp, Head(a)[2] + 1, Head(a)[2] + Head(a)[1])
         \o Selected(resp, Tail(a))

SHA1(d) == [i \in 1..20 |-> <<1, i, <<>>, d>>]

HMAC(k, d) == [i \in 1..20 |-> <<2, i, k, d>>]

\* what the TPM hashes: return code, ordinal, selected response parameters
TpmParamDigest(resp, a) ==
    SHA1(SubSeq(resp, 7, 10) \o BigEndian32(23) \o Selected(resp, a))

Corrupt(mac) == [mac EXCEPT ![20] = B(0)]

\* one authorization block: even nonce, continue flag, HMAC
TpmBlock(k, pd, nEven, q) ==
    LET flag == <<B(1)>>
        mac  == IF q = "swap"
                  THEN HMAC(k, pd \o NOdd \o nEven \o flag)
                  ELSE HMAC(k, pd \o nEven \o NOdd \o flag)
    IN  nEven \o flag \o (IF q = "bad" THEN Corrupt(mac) ELSE mac)

\* a response with the unassigned tag 199 carries an AUTH1-style trailer
TrailerLen(t) ==
    IF t = 198 THEN 82 ELSE IF t \in {197, 199} THEN 41 ELSE 0

Signable(t, S, L, a) ==
    /\ t \in {197, 198, 199}
    /\ S <= L
    /\ S - TrailerLen(t) >= 10
    /\ ArgsInBuf(Plain(t, S, L), a)

\* q1, q2 \in {"good", "bad", "swap"}: how each block was produced
Gen(t, S, L, a, q1, q2) ==
    LET P  == Plain(t, S, L)
        pd == TpmParamDigest(P, a)
        tr == IF t # 198 THEN TpmBlock(K1, pd, NEven1, q1)
              ELSE TpmBlock(K1, pd, NEven1, q1) \o TpmBlock(K2, pd, NEven2, q2)
    IN  IF Signable(t, S, L, a)
          THEN SubSeq(P, 1, S - TrailerLen(t)) \o tr \o SubSeq(P, S + 1, L)
          ELSE P

Tags == {196, 197, 198, 199}

DeclaredSizes == {100, BufLen, 60, 10, BufLen + 50}

Quals == {"good", "bad", "swap"}

ArgList(n) ==
    CASE n = 1 -> << <<0, 0>> >>
      [] n = 2 -> << <<4, 10>>, <<2, 16>>, <<0, 0>> >>
      [] n = 3 -> << <<2, 0>>, <<0, 0>> >>
      [] n = 4 -> << <<3, 12>>, <<0, 0>>, <<4, 14>> >>
      [] n = 5 -> << <<4, BufLen - 2>>, <<0, 0>> >>
      [] OTHER -> << <<1, 10 + n>>, <<0, 0>> >>

ArgLists == {ArgList(n) : n \in 1..NumArgLists}

RECURSIVE Xor(_, _)
Xor(a, b) ==
    IF a = 0 THEN b
    ELSE IF b = 0 THEN a
    ELSE 2 * Xor(a \div 2, b \div 2) + (((a % 2) + (b % 2)) % 2)

\* the byte an adversary writes over b: b with the bits of k flipped, and
\* the plain byte k over a digest byte (always different from b)
TamperByte(b, k) ==
    IF b[1] = 0 THEN B(Xor(Val(b), k)) ELSE B(k)

\* ---- inputs of TSS_AuthHMAC ---------------------------------------------
D1 == Bytes(<<0, 0, 0, 23>>)
D2 == Bytes(<<5, 6, 7>>)

AuthArgList(n) ==
    CASE n = 1 -> << <<0, NULL>> >>
      [] n = 2 -> << <<4, D1>>, <<3, D2>>, <<0, NULL>> >>
      [] n = 3 -> << <<3, D2>>, <<4, D1>>, <<0, NULL>> >>
      [] n = 4 -> << <<4, D1>>, <<0, NULL>>, <<3, D2>> >>
      [] n = 5 -> << <<4, D1>>, <<3, NULL>>, <<0, NULL>> >>
      [] OTHER -> << <<2, D2>>, <<n - 5, D1>>, <<0, NULL>> >>

AuthArgLists == {AuthArgList(n) : n \in 1..(NumArgLists + 1)}

\* the ordinal the TPM signed, and the same four bytes in the other order
Commands == {23, 385875968}

\* ---- state ---------------------------------------------------------------
VARIABLES
    fn,          \* the entry point called: "check" or "auth"
    response,    \* TSS_CheckHMAC arguments
    command,
    nonceOdd,
    key,         \* (TSS_AuthHMAC uses key as well)
    key2,
    args,        \* the variadic selection list
    nonce1,      \* TSS_AuthHMAC arguments
    nonce2,
    authBool,
    digest,      \* TSS_AuthHMAC output buffer
    pc,          \* the source line the call is about to execute, or "done"
    tag,         \* locals of TSS_CheckHMAC
    size,
    ordinal,
    offset,
    paramDigest,
    authHmac,
    result,      \* the value returned
    reads,       \* <<role, block, first, last>>: response bytes read so far
    digests,     \* the digests finished so far, in order
    ub,          \* the call has read outside an object
    prev,        \* tag, size and result of the call on the untampered response
    tampered     \* offset of the byte changed since that call, or -1

inputs == <<fn, command, nonceOdd, key, key2, args, nonce1, nonce2, authBool>>

locals == <<tag, size, ordinal, offset, paramDigest, authHmac>>

vars == <<fn, response, command, nonceOdd, key, key2, args, nonce1, nonce2,
          authBool, digest, pc, tag, size, ordinal, offset, paramDigest,
          authHmac, result, reads, digests, ub, prev, tampered>>

\* the content of the digest buffer before TSS_AuthHMAC writes it
Unwritten == Fill(TPM_HASH_SIZE, 170)

FreshLocals ==
    /\ tag = 0 /\ size = 0 /\ ordinal = <<>> /\ offset = 0
    /\ paramDigest = <<>> /\ authHmac = <<>>
    /\ result = NONE /\ reads = {} /\ digests = <<>> /\ ub = FALSE

ResetLocals ==
    /\ tag' = 0 /\ size' = 0 /\ ordinal' = <<>> /\ offset' = 0
    /\ paramDigest' = <<>> /\ authHmac' = <<>>
    /\ result' = NONE /\ reads' = {} /\ digests' = <<>> /\ ub' = FALSE

InitCheck ==
    /\ fn = "check"
    /\ \E t \in Tags, S \in DeclaredSizes, a \in ArgLists, q1, q2 \in Quals :
         /\ args = a
         /\ response \in {Gen(t, S, BufLen, a, q1, q2), NULL}
    /\ command \in Commands
    /\ nonceOdd \in {NOdd, NOddStale, NULL}
    /\ key \in {K1, K2, NULL}
    /\ key2 \in {K2, K1, NULL}
    /\ nonce1 = NULL /\ nonce2 = NULL /\ authBool = 0
    /\ digest = Unwritten
    /\ pc = "L45"
    /\ FreshLocals
    /\ prev = [tag |-> 0, size |-> 0, result |-> NONE]
    /\ tampered = -1

InitAuth ==
    /\ fn = "auth"
    /\ key \in {K1, K2}
    /\ nonce1 \in {NOdd, NEven1, NULL}
    /\ nonce2 \in {NEven1, NOdd, NULL}
    /\ authBool \in {0, 1}
    /\ args \in AuthArgLists
    /\ digest = Unwritten
    /\ response = NULL /\ command = 0 /\ nonceOdd = NULL /\ key2 = NULL
    /\ pc = "L130"
    /\ FreshLocals
    /\ prev = [tag |-> 0, size |-> 0, result |-> NONE]
    /\ tampered = -1

\* the outcomes of a call that has read outside the response buffer
UBOutcomes == {TPM_SUCCESS, TPM_E_HMAC_FAIL, CRASH}

Return(r) ==
    /\ result' = r
    /\ pc' = "done"

\* ---- TSS_CheckHMAC, line by line ----------------------------------------
\* lines 45-47: the header is decoded before any argument is checked; with a
\* NULL response the reads are invalid: the call is killed, or goes on with
\* whatever was read
Decode ==
    /\ fn = "check" /\ pc = "L45"
    /\ reads' = reads \cup {<<"tag", 0, 0, TPM_U16_SIZE - 1>>,
                            <<"size", 0, TPM_U16_SIZE,
                              TPM_U16_SIZE + TPM_U32_SIZE - 1>>}
    /\ ordinal' = ToTpmUint32(command)
    /\ IF response # NULL
         THEN /\ tag' = FromTpmUint16(response, 0)
              /\ size' = FromTpmUint32(response, TPM_U16_SIZE)
              /\ pc' = "L49"
              /\ UNCHANGED <<result, ub>>
         ELSE /\ ub' = TRUE
              /\ \E killed \in BOOLEAN, t \in Tags, S \in DeclaredSizes :
                   IF killed
                     THEN Return(CRASH) /\ UNCHANGED <<tag, size>>
                     ELSE /\ tag' = t /\ size' = S
                          /\ pc' = "L49" /\ UNCHANGED result
    /\ UNCHANGED <<inputs, response, digest, offset, paramDigest, authHmac,
                   digests, prev, tampered>>

\* lines 49-50
TagCheck ==
    /\ fn = "check" /\ pc = "L49"
    /\ IF IsNoAuth(tag)
         THEN Return(TPM_SUCCESS)
         ELSE pc' = "L52" /\ UNCHANGED result
    /\ UNCHANGED <<inputs, response, digest, locals, reads, digests, ub,
                   prev, tampered>>

\* lines 52-53
NullCheck ==
    /\ fn = "check" /\ pc = "L52"
    /\ IF MissingArg(response, nonceOdd, key)
         THEN Return(TPM_E_NULL_ARG)
         ELSE pc' = "L56" /\ UNCHANGED result
    /\ UNCHANGED <<inputs, response, digest, locals, reads, digests, ub,
                   prev, tampered>>

\* lines 56-57
AuthTagCheck ==
    /\ fn = "check" /\ pc = "L56"
    /\ IF UnsupportedTag(tag)
         THEN Return(TPM_E_HMAC_FAIL)
         ELSE pc' = "L60" /\ UNCHANGED result
    /\ UNCHANGED <<inputs, response, digest, locals, reads, digests, ub,
                   prev, tampered>>

\* lines 60-61
Key2Check ==
    /\ fn = "check" /\ pc = "L60"
    /\ IF MissingKey2(tag, key2)
         THEN Return(TPM_E_NULL_ARG)
         ELSE pc' = "L63" /\ UNCHANGED result
    /\ UNCHANGED <<inputs, response, digest, locals, reads, digests, ub,
                   prev, tampered>>

\* lines 63-76: the parameter digest; a selected range outside the buffer is
\* read all the same
HashInput ==
    /\ fn = "check" /\ pc = "L63"
    /\ reads' = reads
         \cup {<<"rc", 0, TPM_U16_SIZE + TPM_U32_SIZE,
                 TPM_U16_SIZE + TPM_U32_SIZE + TPM_U32_SIZE - 1>>}
         \cup ArgReads(args)
    /\ IF ArgsInBuf(response, args)
         THEN /\ paramDigest' = CheckParamDigest(response, ordinal, args)
              /\ digests' = Append(digests, "paramDigest")
              /\ pc' = "L83"
              /\ UNCHANGED <<result, ub>>
         ELSE /\ ub' = TRUE
              /\ \E r \in UBOutcomes : Return(r)
              /\ UNCHANGED <<paramDigest, digests>>
    /\ UNCHANGED <<inputs, response, digest, tag, size, ordinal, offset,
                   authHmac, prev, tampered>>

\* lines 83-85
SetOffset ==
    /\ fn = "check" /\ pc = "L83"
    /\ offset' = TrailerOffset(tag)
    /\ pc' = "L88"
    /\ UNCHANGED <<inputs, response, digest, tag, size, ordinal, paramDigest,
                   authHmac, result, reads, digests, ub, prev, tampered>>

\* lines 88-98: the first authorization block, at response + size - offset
Auth1 ==
    /\ fn = "check" /\ pc = "L88"
    /\ reads' = reads \cup BlockReads(1, size - offset)
    /\ IF InBuf(response, size - offset, BlockLen)
         THEN LET mac == AuthBlockHmac(key, paramDigest, response,
                                       size - offset, nonceOdd)
              IN  /\ authHmac' = mac
                  /\ digests' = Append(digests, "authHmac1")
                  /\ IF ~AuthBlockMatches(mac, response, size - offset)
                       THEN Return(Block1FailCode)
                       ELSE pc' = "L101" /\ UNCHANGED result
                  /\ UNCHANGED ub
         ELSE /\ ub' = TRUE
              /\ \E r \in UBOutcomes : Return(r)
              /\ UNCHANGED <<authHmac, digests>>
    /\ UNCHANGED <<inputs, response, digest, tag, size, ordinal, offset,
                   paramDigest, prev, tampered>>

\* lines 101-116: the second authorization block of an AUTH2 response
Auth2 ==
    /\ fn = "check" /\ pc = "L101"
    /\ IF tag = TPM_TAG_RSP_AUTH2_COMMAND
         THEN LET off == HalvedOffset(offset)
              IN  /\ offset' = off
                  /\ reads' = reads \cup BlockReads(2, size - off)
                  /\ IF InBuf(response, size - off, BlockLen)
                       THEN LET mac == AuthBlockHmac(key2, paramDigest,
                                           response, size - off, nonceOdd)
                            IN  /\ authHmac' = mac
                                /\ digests' = Append(digests, "authHmac2")
                                /\ IF ~AuthBlockMatches(mac, response,
                                                        size - off)
                                     THEN Return(Block2FailCode)
                                     ELSE Return(TPM_SUCCESS)
                                /\ UNCHANGED ub
                       ELSE /\ ub' = TRUE
                            /\ \E r \in UBOutcomes : Return(r)
                            /\ UNCHANGED <<authHmac, digests>>
         ELSE /\ Return(TPM_SUCCESS)
              /\ UNCHANGED <<offset, authHmac, reads, digests, ub>>
    /\ UNCHANGED <<inputs, response, digest, tag, size, ordinal, paramDigest,
                   prev, tampered>>

\* the adversary changes one byte of a response that verified, and the
\* caller verifies it again with the same arguments
Tamper ==
    /\ fn = "check" /\ pc = "done"
    /\ result = TPM_SUCCESS /\ ~ub /\ tampered = -1
    /\ tag \in {TPM_TAG_RSP_AUTH1_COMMAND, TPM_TAG_RSP_AUTH2_COMMAND}
    /\ \E p \in 0..(Len(response) - 1), k \in 1..NumTamperValues :
         /\ response' = [response EXCEPT ![p + 1] = TamperByte(@, k)]
         /\ tampered' = p
    /\ prev' = [tag |-> tag, size |-> size, result |-> result]
    /\ pc' = "L45"
    /\ ResetLocals
    /\ UNCHANGED <<inputs, digest>>

\* ---- TSS_AuthHMAC, line by line -----------------------------------------
\* lines 130-132
AuthNonceCheck ==
    /\ fn = "auth" /\ pc = "L130"
    /\ IF nonce1 = NULL \/ nonce2 = NULL
         THEN Return(TPM_E_NULL_ARG)
         ELSE pc' = "L134" /\ UNCHANGED result
    /\ UNCHANGED <<inputs, response, digest, locals, reads, digests, ub,
                   prev, tampered>>

\* lines 134-146: the parameter digest over the supplied buffers
AuthHashInput ==
    /\ fn = "auth" /\ pc = "L134"
    /\ IF AuthNullArg(args)
         THEN /\ Return(TPM_E_NULL_ARG)
              /\ UNCHANGED <<paramDigest, digests>>
         ELSE /\ paramDigest' = AuthParamDigest(args)
              /\ digests' = Append(digests, "paramDigest")
              /\ pc' = "L149" /\ UNCHANGED result
    /\ UNCHANGED <<inputs, response, digest, tag, size, ordinal, offset,
                   authHmac, reads, ub, prev, tampered>>

\* lines 148-156
AuthCalcHmac ==
    /\ fn = "auth" /\ pc = "L149"
    /\ digest' = AuthHmacValue(key, paramDigest, nonce1, nonce2, authBool)
    /\ digests' = Append(digests, "digest")
    /\ Return(TPM_SUCCESS)
    /\ UNCHANGED <<inputs, response, locals, reads, ub, prev, tampered>>

Init == InitCheck \/ InitAuth

Next ==
    \/ Decode
    \/ TagCheck
    \/ NullCheck
    \/ AuthTagCheck
    \/ Key2Check
    \/ HashInput
    \/ SetOffset
    \/ Auth1
    \/ Auth2
    \/ Tamper
    \/ AuthNonceCheck
    \/ AuthHashInput
    \/ AuthCalcHmac

Spec == Init /\ [][Next]_vars

\* ==== properties ==========================================================
\* The properties read the response bytes themselves and use SHA1, HMAC,
\* BigEndian32 and Selected, not the operators of the model above.
RespTag == Val(response[1]) * 256 + Val(response[2])

RespSize ==
    Val(response[3]) * 16777216 + Val(response[4]) * 65536
  + Val(response[5]) * 256 + Val(response[6])

CheckReturned == fn = "check" /\ pc = "done"

ArgsPresent == response # NULL /\ nonceOdd # NULL /\ key # NULL

\* the declared size holds a trailer of n bytes, and the declared size and
\* the selected ranges lie inside the buffer
WellPlaced(n) ==
    /\ RespSize >= n
    /\ RespSize <= Len(response)
    /\ ArgsInBuf(response, args)

RefParamDigest ==
    SHA1(SubSeq(response, 7, 10) \o BigEndian32(command)
         \o Selected(response, args))

\* the block whose even nonce is at offset e (flag at e+20, HMAC at e+21..e+40)
\* carries the HMAC of the verifier's input under the key k
RefBlockOk(k, e) ==
    SubSeq(response, e + 22, e + 41)
      = HMAC(k, RefParamDigest \o SubSeq(response, e + 1, e + 20)
                \o nonceOdd \o <<response[e + 21]>>)

OnlyHeaderRead == \A r \in reads : r[1] \in {"tag", "size"}

\* C1: a response whose tag is NO_AUTH (TPM_TAG_RSP_COMMAND) verifies as
\* TPM_SUCCESS whatever its size, trailer and selection list and whether or
\* not nonceOdd, key and key2 are NULL, and nothing is hashed on the way.
C1_NoAuthAlwaysOk ==
    (CheckReturned /\ response # NULL /\ RespTag = 196)
      => /\ result = TPM_SUCCESS
         /\ digests = <<>>
         /\ OnlyHeaderRead

C1_Witness ==
    /\ CheckReturned /\ response # NULL /\ RespTag = 196
    /\ nonceOdd = NULL /\ key = NULL /\ key2 = NULL
    /\ args = ArgList(2)
    /\ result = TPM_SUCCESS

\* C2: TSS_CheckHMAC returns TPM_E_NULL_ARG whenever response, nonceOdd or
\* key is NULL, for every tag, and reads no byte of a NULL response.
C2_NullArgFirst ==
    (CheckReturned /\ (response = NULL \/ nonceOdd = NULL \/ key = NULL))
      => /\ result = TPM_E_NULL_ARG
         /\ response = NULL => reads = {}

\* C3: an AUTH2 response with response, nonceOdd and key present and key2
\* NULL yields TPM_E_NULL_ARG before any digest is computed and before any
\* byte after the header is read.
C3_MissingKey2 ==
    (CheckReturned /\ ArgsPresent /\ RespTag = 198 /\ key2 = NULL)
      => /\ result = TPM_E_NULL_ARG
         /\ digests = <<>>
         /\ OnlyHeaderRead

C3_Witness ==
    /\ CheckReturned /\ ArgsPresent /\ RespTag = 198 /\ key2 = NULL
    /\ WellPlaced(82) /\ RespSize = 100
    /\ key = K1 /\ nonceOdd = NOdd /\ command = 23
    /\ RefBlockOk(K1, RespSize - 82)
    /\ result = TPM_E_NULL_ARG

\* C4 as stated: every response whose tag is none of NO_AUTH, AUTH1, AUTH2
\* fails with TPM_E_HMAC_FAIL, whether or not key2 is supplied.
C4_Original ==
    (CheckReturned /\ response # NULL /\ RespTag \notin {196, 197, 198})
      => result = TPM_E_HMAC_FAIL

\* C4 (amended): a response whose tag is none of NO_AUTH, AUTH1, AUTH2 never
\* verifies: it fails with TPM_E_HMAC_FAIL when nonceOdd and key are present
\* and with TPM_E_NULL_ARG when one of them is NULL, whether or not key2 is
\* supplied and whatever the trailer holds.
C4_UnsupportedTag ==
    (CheckReturned /\ response # NULL /\ RespTag \notin {196, 197, 198})
      => result = IF nonceOdd = NULL \/ key = NULL
                    THEN TPM_E_NULL_ARG
                    ELSE TPM_E_HMAC_FAIL

C4_Witness ==
    /\ CheckReturned /\ ArgsPresent /\ RespTag = 199 /\ key2 = NULL
    /\ WellPlaced(41) /\ RefBlockOk(key, RespSize - 41)
    /\ result = TPM_E_HMAC_FAIL

\* C5: for an AUTH1 response of declared size S with all arguments present
\* (S and the selected ranges inside the buffer) the result is TPM_SUCCESS
\* exactly when the bytes at offsets S-20..S-1 are HMAC(key, paramDigest ||
\* bytes S-41..S-22 || nonceOdd || byte S-21), and TPM_E_HMAC_FAIL otherwise,
\* paramDigest being SHA1(bytes 6..9 || big-endian ordinal || the selected
\* ranges up to the first zero length); the even nonce, the flag and the HMAC
\* are read at S-41, S-21 and S-20: 59, 79 and 80..99 for S = 100.
C5_Auth1Verifies ==
    (CheckReturned /\ ArgsPresent /\ RespTag = 197 /\ WellPlaced(41))
      => LET S == RespSize
             pd == SHA1(SubSeq(response, 7, 10) \o BigEndian32(command)
                        \o Selected(response, args))
             expected == HMAC(key, pd \o SubSeq(response, S - 40, S - 21)
                                   \o nonceOdd \o <<response[S - 20]>>)
         IN  /\ result = IF SubSeq(response, S - 19, S) = expected
                           THEN TPM_SUCCESS
                           ELSE TPM_E_HMAC_FAIL
             /\ {<<"nonce", 1, S - 41, S - 22>>, <<"flag", 1, S - 21, S - 21>>,
                 <<"hmac", 1, S - 20, S - 1>>} \subseteq reads
             /\ S = 100 =>
                  {<<"nonce", 1, 59, 78>>, <<"flag", 1, 79, 79>>,
                   <<"hmac", 1, 80, 99>>} \subseteq reads

C5_Witness ==
    /\ CheckReturned /\ ArgsPresent /\ RespTag = 197 /\ WellPlaced(41)
    /\ RespSize = 100 /\ args = ArgList(2) /\ tampered = -1
    /\ <<"hmac", 1, 80, 99>> \in reads
    /\ result = TPM_SUCCESS

\* C6: for an AUTH2 response of declared size S with key2 present (S and the
\* selected ranges inside the buffer) the result is TPM_SUCCESS exactly when
\* the first block (nonce S-82, flag S-62, HMAC S-61..S-42) verifies under
\* key and the second (nonce S-41, flag S-21, HMAC S-20..S-1) under key2, with
\* the same paramDigest and nonceOdd, and TPM_E_HMAC_FAIL otherwise; the
\* second block is read only after the first has verified.
C6_Auth2BothBlocks ==
    /\ (CheckReturned /\ ArgsPresent /\ key2 # NULL /\ RespTag = 198
          /\ WellPlaced(82))
         => LET S == RespSize
                first == RefBlockOk(key, S - 82)
                second == RefBlockOk(key2, S - 41)
            IN  /\ result = IF first /\ second THEN TPM_SUCCESS
                            ELSE TPM_E_HMAC_FAIL
                /\ {<<"nonce", 1, S - 82, S - 63>>,
                    <<"flag", 1, S - 62, S - 62>>,
                    <<"hmac", 1, S - 61, S - 42>>} \subseteq reads
                /\ first =>
                     {<<"nonce", 2, S - 41, S - 22>>,
                      <<"flag", 2, S - 21, S - 21>>,
                      <<"hmac", 2, S - 20, S - 1>>} \subseteq reads
    /\ (fn = "check" /\ \E r \in reads : r[2] = 2)
         => /\ ArgsPresent /\ RespTag = 198
            /\ InBuf(response, RespSize - 82, 41)
            /\ RefBlockOk(key, RespSize - 82)

C6_Witness ==
    /\ CheckReturned /\ ArgsPresent /\ key2 # NULL /\ RespTag = 198
    /\ WellPlaced(82) /\ RespSize = 100 /\ tampered = -1
    /\ RefBlockOk(key, 18) /\ RefBlockOk(key2, 59)
    /\ result = TPM_SUCCESS

\* the first block of an AUTH2 response verifies and the second does not
SecondBlockOnlyFails ==
    /\ CheckReturned /\ ArgsPresent /\ key2 # NULL /\ RespTag = 198
    /\ WellPlaced(82)
    /\ RefBlockOk(key, RespSize - 82)
    /\ ~RefBlockOk(key2, RespSize - 41)

RECURSIVE SelectedOffsets(_)
SelectedOffsets(a) ==
    IF a = <<>> \/ Head(a)[1] = 0 THEN {}
    ELSE (Head(a)[2] .. (Head(a)[2] + Head(a)[1] - 1))
         \cup SelectedOffsets(Tail(a))

\* the offsets the accepted response was verified over: return code, selected
\* ranges, and the trailer (even nonces, continue flags, HMAC fields)
VerifiedOffsets ==
    (6..9) \cup SelectedOffsets(args)
           \cup ((prev.size - TrailerLen(prev.tag)) .. (prev.size - 1))

\* a response that verified has had one byte changed and was verified again
Reverified ==
    CheckReturned /\ tampered >= 0 /\ prev.result = TPM_SUCCESS

C9_CheckedSubtraction ==
    (CheckReturned /\ ArgsPresent /\ RespTag \in {197, 198}
       /\ (RespTag = 198 => key2 # NULL) /\ ArgsInBuf(response, args))
      => /\ RespSize < TrailerLen(RespTag) => result = "InvalidRange"
         /\ \A r \in reads : r[2] >= 1 => (r[3] >= 0 /\ r[4] <= RespSize - 1)

RECURSIVE AuthSelected(_)
AuthSelected(a) ==
    IF a = <<>> \/ Head(a)[1] = 0 THEN <<>>
    ELSE SubSeq(Head(a)[2], 1, Head(a)[1]) \o AuthSelected(Tail(a))

RECURSIVE NullRange(_)
NullRange(a) ==
    IF a = <<>> \/ Head(a)[1] = 0 THEN FALSE
    ELSE Head(a)[2] = <<>> \/ NullRange(Tail(a))

AuthReturned == fn = "auth" /\ pc = "done"

RefAuthHmac(n1, n2) ==
    HMAC(key, SHA1(AuthSelected(args)) \o n1 \o n2 \o <<B(authBool)>>)

\* C10 as stated: with both nonces present TSS_AuthHMAC writes HMAC(key,
\* paramDigest || nonce1 || nonce2 || authBool) to the digest buffer; with a
\* nonce absent it returns TPM_E_NULL_ARG and leaves the buffer unwritten.
C10_Original ==
    AuthReturned
      => IF nonce1 = NULL \/ nonce2 = NULL
           THEN result = TPM_E_NULL_ARG /\ digest = Unwritten
           ELSE result = TPM_SUCCESS /\ digest = RefAuthHmac(nonce1, nonce2)

\* C10 (amended): with both nonces present and no NULL buffer among the
\* supplied ranges, TSS_AuthHMAC returns TPM_SUCCESS and writes HMAC(key,
\* paramDigest || nonce1 || nonce2 || authBool), first nonce first, where
\* paramDigest is SHA1 of the supplied ranges in order up to the first zero
\* length, no ordinal prepended; the digest with the nonces swapped differs
\* whenever the nonces differ, and the verifier hashes the even nonce before
\* the caller's odd nonce.  With a nonce absent, or a NULL buffer among the
\* ranges, it returns TPM_E_NULL_ARG and leaves the digest buffer unwritten.
C10_AuthHmac ==
    /\ AuthReturned
         => IF nonce1 = NULL \/ nonce2 = NULL \/ NullRange(args)
              THEN result = TPM_E_NULL_ARG /\ digest = Unwritten
              ELSE /\ result = TPM_SUCCESS
                   /\ digest = RefAuthHmac(nonce1, nonce2)
                   /\ nonce1 # nonce2 => digest # RefAuthHmac(nonce2, nonce1)
    /\ (fn = "check" /\ pc = "L101")
         => authHmac = HMAC(key, paramDigest
                              \o SubSeq(response, size - offset + 1,
                                        size - offset + 20)
                              \o nonceOdd
                              \o <<response[size - offset + 21]>>)

C10_Witness ==
    /\ AuthReturned /\ nonce1 = NOdd /\ nonce2 = NEven1
    /\ args = AuthArgList(2) /\ authBool = 1
    /\ result = TPM_SUCCESS
    /\ digest = RefAuthHmac(NOdd, NEven1)

====
